---- MODULE Spec2Model ----
(***************************************************************************)
(* A model of BioLLM (biollm_model.py): the four stage adapters            *)
(* (speech_recognition, translate_text, process_rag_query,                 *)
(* process_with_bio_llm) and the orchestrator process_pipeline, together   *)
(* with the calls the Streamlit front end (app.py) makes on them.          *)
(*                                                                         *)
(* Python values are modelled as follows.                                  *)
(*   None            [kind |-> "None"]                                     *)
(*   a str           [kind |-> "str", chars |-> <<tokens>>]; "" is <<>>,   *)
(*                   concatenation (f-strings) is \o on the tokens         *)
(*   a number        [kind |-> "num", repr |-> "1.0"]                      *)
(*   a dict          a function from its keys to its values (<<>> is {})   *)
(* The hosted models are external: every call to one draws its outcome     *)
(* (an exception, a response without .data, a response with .data) from a  *)
(* small set, and is logged with its request and that reply.               *)
(***************************************************************************)
EXTENDS Naturals, Sequences, FiniteSets, TLC

VARIABLES
    pc,          \* per caller: where its call stands
    args,        \* per caller: the arguments of its process_pipeline call
    response,    \* per caller: the response dict of process_pipeline
    locals,      \* per caller: input_data, translated_data, rag_data
    calls,       \* per caller: the requests sent to the external capabilities
    statusLog    \* per caller: the values assigned to response["status"] after line 239

vars == <<pc, args, response, locals, calls, statusLog>>

\* The longest text a caller passes, in words.
MaxTextLen == 1

Procs == {"c1", "c2"}

(***************************************************************************)
(* Python values                                                           *)
(***************************************************************************)
None == [kind |-> "None"]

Str(s) == [kind |-> "str", chars |-> s]

Num(r) == [kind |-> "num", repr |-> r]

IsStr(v) == "kind" \in DOMAIN v /\ v.kind = "str"

IsDict(v) == "kind" \notin DOMAIN v

\* The test "v is not None" in place of bool(v).
Truthy_notNone(v) == v # None

\* bool(v): None, "" and {} are false.
Truthy(v) ==
    IF IsDict(v) THEN DOMAIN v # {}
    ELSE IF v.kind = "str" THEN v.chars # <<>>
    ELSE v.kind # "None"

\* str(v) as the f-strings and str() calls of the module use it.
PyStr(v) ==
    IF IsDict(v) THEN Str(<<"{...}">>)
    ELSE IF v.kind = "str" THEN v
    ELSE IF v.kind = "num" THEN Str(<<v.repr>>)
    ELSE Str(<<"None">>)

Concat(a, b) == Str(a.chars \o b.chars)

\* d.get(k, default)
Get(d, k, default) == IF k \in DOMAIN d THEN d[k] ELSE default

\* v[:n] is defined on a str and raises TypeError on None.
Sliceable(v) == IsStr(v)

NoCalls == <<>>

Returned(v, cs) == [raised |-> FALSE, ret |-> v, calls |-> cs]

Raised(type, msg, cs) == [raised |-> TRUE, exc |-> [type |-> type, msg |-> msg], calls |-> cs]

(***************************************************************************)
(* What the external capabilities may answer                               *)
(***************************************************************************)
\* speech_recognition_model.run: raises, returns an object without .data,
\* or one whose .data is a dict (with or without text, language) or not a dict.
SpeechOutcomes ==
    { [kind |-> "raise"],
      [kind |-> "opaque"],
      [kind |-> "data", data |-> Str(<<"transcript">>)],
      [kind |-> "data", data |-> <<>>],
      [kind |-> "data", data |-> [text |-> Str(<<"dolor toracico">>)]],
      [kind |-> "data", data |-> [text |-> Str(<<"dolor toracico">>), language |-> Str(<<"es">>)]],
      [kind |-> "data", data |-> [text |-> Str(<<"chest pain">>), language |-> Str(<<"en">>)]],
      [kind |-> "data", data |-> [text |-> Str(<<"douleur">>), language |-> Str(<<"fr">>)]] }

\* translate_model.run
TranslateOutcomes ==
    { [kind |-> "raise"],
      [kind |-> "opaque"],
      [kind |-> "data", data |-> Str(<<"translated">>)] }

\* requests.post(...), raise_for_status(), response.json()
RagOutcomes ==
    { [kind |-> "request_error"],
      [kind |-> "bad_json"],
      [kind |-> "json", body |-> [status |-> Str(<<"SUCCESS">>), completed |-> TRUE,
                                  data |-> Str(<<"anginal context">>)]],
      [kind |-> "json", body |-> [status |-> Str(<<"SUCCESS">>), completed |-> TRUE,
                                  data |-> Str(<<>>)]],
      [kind |-> "json", body |-> [status |-> Str(<<"SUCCESS">>), completed |-> TRUE]],
      [kind |-> "json", body |-> [status |-> Str(<<"SUCCESS">>), completed |-> TRUE,
                                  data |-> [data |-> Str(<<"anginal context">>)]]],
      [kind |-> "json", body |-> [status |-> Str(<<"SUCCESS">>), completed |-> FALSE,
                                  data |-> Str(<<"partial">>)]],
      [kind |-> "json", body |-> [status |-> Str(<<"FAILED">>), completed |-> TRUE]],
      [kind |-> "json", body |-> <<>>] }

\* bio_llm_model.run
BioLLMOutcomes ==
    { [kind |-> "raise"],
      [kind |-> "opaque"],
      [kind |-> "data", data |-> Str(<<"answer">>)] }

(***************************************************************************)
(* The stage adapters.  Each takes the outcome of the external call it may *)
(* make and gives Returned(dict, calls) or Raised(type, message, calls).   *)
(***************************************************************************)
Success == "success"

Error == "error"

\* process_text: a dict echoing the text and the language.
process_text(text, source_language) ==
    Returned([text |-> text,
              source_language |-> source_language,
              status |-> Success,
              message |-> Concat(Str(<<"Successfully processed text in ">>),
                                 PyStr(source_language))],
             NoCalls)

\* speech_recognition: one call of the speech model; any exception of the
\* try block (the call's own, or .get on a .data that is no dict) gives the
\* error dict, whose text and source_language are None.
speech_recognition(audio_path, out) ==
    LET request == [cap |-> "speech", source_audio |-> audio_path, reply |-> out]
        failed(e) ==
            Returned([text |-> None,
                      source_language |-> None,
                      status |-> Error,
                      message |-> Concat(Str(<<"Speech recognition failed: ">>), Str(<<e>>))],
                     <<request>>)
        ok(recognized_text, detected_language) ==
            Returned([text |-> recognized_text,
                      source_language |-> detected_language,
                      status |-> Success,
                      message |-> Str(<<"Successfully transcribed audio">>)],
                     <<request>>)
    IN  IF out.kind = "raise" THEN failed("transport error")
        ELSE IF out.kind = "opaque" THEN ok(Str(<<"<ModelResponse>">>), Str(<<"en">>))
        ELSE IF ~IsDict(out.data) THEN failed("'str' object has no attribute 'get'")
        ELSE ok(Get(out.data, "text", Str(<<>>)), Get(out.data, "language", Str(<<"en">>)))

\* translate_text without its shortcut: the model is called whatever the languages.
SameLanguage_never(source_language, target_language) == FALSE

\* The test of line 147 that spares the call of the translate model.
SameLanguage(source_language, target_language) == source_language = target_language

\* translate_text: no call when the languages are equal; otherwise one call
\* of the translate model, its failure giving an error dict with the input text.
translate_text(input_data, target_language, out) ==
    LET text == Get(input_data, "text", Str(<<>>))
        source_language == Get(input_data, "source_language", Str(<<"en">>))
        request == [cap |-> "translate", text |-> text,
                    sourcelanguage |-> source_language,
                    targetlanguage |-> target_language, reply |-> out]
    IN  IF SameLanguage(source_language, target_language)
        THEN Returned([translated_text |-> text,
                       status |-> Success,
                       message |-> Str(<<"No translation needed - same language">>)],
                      NoCalls)
        ELSE IF out.kind = "raise"
        THEN Returned([translated_text |-> text,
                       status |-> Error,
                       message |-> Str(<<"Translation failed: ", "transport error">>)],
                      <<request>>)
        ELSE Returned([translated_text |-> IF out.kind = "data" THEN out.data ELSE text,
                       status |-> Success,
                       message |-> Concat(Concat(Str(<<"Successfully translated from ">>),
                                                 PyStr(source_language)),
                                          Concat(Str(<<" to ">>), PyStr(target_language)))],
                      <<request>>)

\* process_rag_query: one POST to the search endpoint.  Every path returns a
\* dict with the single key rag_result: the data on success, and the error
\* message otherwise.
process_rag_query(query, category, out) ==
    LET request == [cap |-> "rag", data |-> query, category |-> category, reply |-> out]
        result == out.body
        accepted == /\ Get(result, "status", None) = Str(<<"SUCCESS">>)
                    /\ Get(result, "completed", FALSE) = TRUE
    IN  IF out.kind = "request_error"
        THEN Returned([rag_result |-> Str(<<"Request error: ", "connection refused">>)],
                      <<request>>)
        ELSE IF out.kind = "bad_json"
        THEN Returned([rag_result |-> Str(<<"Unexpected error: ", "invalid json">>)],
                      <<request>>)
        ELSE IF accepted
        THEN Returned([rag_result |-> Get(result, "data", Str(<<>>))], <<request>>)
        ELSE Returned([rag_result |->
                          Concat(Str(<<"RAG query failed with status: ">>),
                                 PyStr(Get(result, "status", Str(<<"UNKNOWN">>))))],
                      <<request>>)

\* The keyword parameters process_with_bio_llm accepts besides its two dicts.
BioLLMKeywords == {"temperature", "top_p", "top_k", "max_tokens", "context"}

\* The context taken from rag_data (lines 185-191).
RagContext(rag_data) ==
    IF rag_data # None /\ Truthy(rag_data) /\ "rag_result" \in DOMAIN rag_data
    THEN LET rag_result == rag_data["rag_result"]
         IN  IF IsDict(rag_result) THEN Get(rag_result, "data", Str(<<>>))
             ELSE PyStr(rag_result)
    ELSE Str(<<>>)

\* The prompt of line 193.
CombinedInput(translated_text, rag_context) ==
    IF Truthy(rag_context)
    THEN Concat(Concat(PyStr(translated_text), Str(<<"\n\nAdditional context: ">>)),
                rag_context)
    ELSE translated_text

DefaultContext == Str(<<"You are an expert ... from the healthcare and biomedical domain">>)

\* process_with_bio_llm: builds the prompt, logs its first 100 characters
\* (outside the try block), then calls the generation model once.
process_with_bio_llm(text_data, rag_data, params, out) ==
    IF ~(DOMAIN params \subseteq BioLLMKeywords)
    THEN Raised("TypeError", Str(<<"got an unexpected keyword argument">>), NoCalls)
    ELSE
    LET translated_text == Get(text_data, "translated_text", Str(<<>>))
        combined_input == CombinedInput(translated_text, RagContext(rag_data))
        given == Get(params, "context", None)
        request == [cap |-> "bio_llm",
                    data |-> combined_input,
                    temperature |-> PyStr(Get(params, "temperature", Num("1.0"))),
                    top_p |-> PyStr(Get(params, "top_p", Num("0.9"))),
                    top_k |-> PyStr(Get(params, "top_k", Num("50"))),
                    max_tokens |-> PyStr(Get(params, "max_tokens", Num("100"))),
                    context |-> IF Truthy(given) THEN given ELSE DefaultContext,
                    reply |-> out]
    IN  IF ~Sliceable(combined_input)
        THEN Raised("TypeError", Str(<<"'NoneType' object is not subscriptable">>), NoCalls)
        ELSE IF out.kind = "raise"
        THEN Returned([result |-> None,
                       status |-> Error,
                       message |-> Str(<<"BioLLM processing failed: ", "transport error">>)],
                      <<request>>)
        ELSE Returned([result |-> IF out.kind = "data" THEN out.data
                                  ELSE Str(<<"<ModelResponse>">>),
                       status |-> Success,
                       message |-> Str(<<"Successfully processed with BioLLM">>)],
                      <<request>>)

(***************************************************************************)
(* process_pipeline, stage by stage                                        *)
(***************************************************************************)
English == Str(<<"en">>)

\* The response dict of lines 238-241.
NewResponse == [status |-> "processing", steps |-> <<>>]

\* The steps dict kept on the instance and shared by the calls in progress.
WithStep_shared(resp, name, value) ==
    [resp EXCEPT !.steps =
        (name :> value) @@ resp.steps
        @@ (IF response["c1"] # <<>> THEN response["c1"].steps ELSE <<>>)
        @@ (IF response["c2"] # <<>> THEN response["c2"].steps ELSE <<>>)]

\* The stage map rebuilt around the newest entry.
WithStep_replace(resp, name, value) == [resp EXCEPT !.steps = (name :> value)]

\* response["steps"][name] = value
WithStep(resp, name, value) ==
    [resp EXCEPT !.steps = (name :> value) @@ resp.steps]

\* Lines 245-258: validation, then process_text or speech_recognition.
InputStage(a, out) ==
    IF a.input_type = "text"
    THEN IF ~Truthy(a.text)
         THEN Raised("ValueError", Str(<<"Text input requires 'text' parameter">>), NoCalls)
         ELSE IF ~Truthy(a.source_language)
         THEN Raised("ValueError",
                     Str(<<"Source language must be provided for text input">>), NoCalls)
         ELSE process_text(a.text, a.source_language)
    ELSE IF a.input_type = "speech"
    THEN IF ~Truthy(a.audio_path)
         THEN Raised("ValueError", Str(<<"Speech input requires 'audio_path' parameter">>),
                     NoCalls)
         ELSE speech_recognition(a.audio_path, out)
    ELSE Raised("ValueError", Str(<<"Invalid input type. Choose 'text' or 'speech'">>), NoCalls)

\* Lines 263-273: translate_text unless the source language is English.
TranslationStage(input_data, target_language, out) ==
    LET source_lang == Get(input_data, "source_language", English)
    IN  IF source_lang # English
        THEN translate_text(input_data, target_language, out)
        ELSE Returned([translated_text |-> Get(input_data, "text", Str(<<>>)),
                       status |-> Success,
                       message |-> Str(<<"No translation needed - source language is English">>)],
                      NoCalls)

\* Retrieval done only by the first call of the instance that asks for it.
RagWanted_first_time(rag_query, rag_category) ==
    /\ Truthy(rag_query)
    /\ Truthy(rag_category)
    /\ \A p \in Procs : \A i \in 1..Len(calls[p]) : calls[p][i].cap # "rag"

\* Line 278 testing the query alone.
RagWanted_query_only(rag_query, rag_category) == Truthy(rag_query)

\* The condition of line 278.
RagWanted(rag_query, rag_category) == Truthy(rag_query) /\ Truthy(rag_category)

\* The retrieval request sent a second time when the first attempt failed.
RagStage_retry(a, out) ==
    IF RagWanted(a.rag_query, a.rag_category)
    THEN LET r == process_rag_query(a.rag_query, a.rag_category, out)
         IN  IF out.kind \in {"request_error", "bad_json"}
             THEN [r EXCEPT !.calls = @ \o @]
             ELSE r
    ELSE Returned(None, NoCalls)

\* Lines 277-280: rag_data stays None unless the query and the category are given.
RagStage(a, out) ==
    IF RagWanted(a.rag_query, a.rag_category)
    THEN process_rag_query(a.rag_query, a.rag_category, out)
    ELSE Returned(None, NoCalls)

\* Lines 283-286.
BioLLMStage(a, translated_data, rag_data, out) ==
    process_with_bio_llm(translated_data, rag_data,
                         IF a.bio_llm_params = None THEN <<>> ELSE a.bio_llm_params, out)

\* Lines 287-292: the result is recorded and the status set to success.
PipelineCompletes(resp, result) ==
    [response |-> [status |-> Success,
                   steps |-> WithStep(resp, "bio_llm_processing", result).steps,
                   message |-> Str(<<"Pipeline completed successfully">>)],
     assigned |-> <<Success>>]

\* Line 294: except Exception.
ExceptionClasses == {"ValueError", "TypeError", "AttributeError", "KeyError"}

\* Line 294 as except ValueError: only the validation errors are handled.
PipelineCatches_ValueError(type) == type = "ValueError"

PipelineCatches(type) == type \in ExceptionClasses

\* Lines 295-298.
ExceptHandler(resp, exc) ==
    [response |-> [status |-> Error,
                   steps |-> resp.steps,
                   message |-> Concat(Str(<<"Pipeline failed: ">>), exc.msg)],
     assigned |-> <<Error>>]

(***************************************************************************)
(* The arguments callers pass                                              *)
(***************************************************************************)
InputTypes == {"text", "speech", "audio"}

RECURSIVE Words(_)
Words(n) == IF n = 0 THEN <<>> ELSE <<"pain">> \o Words(n - 1)

Texts == {None} \cup {Str(Words(n)) : n \in 0..MaxTextLen}

SourceLanguages == {None, Str(<<"en">>), Str(<<"fr">>)}

TargetLanguages == {Str(<<"en">>), Str(<<"fr">>)}

AudioPaths == {None, Str(<<"/tmp/a.wav">>)}

RagQueries == {None, Str(<<>>), Str(<<"angina">>)}

RagCategories == {None, Str(<<>>), Str(<<"general">>)}

BioLLMParams == {None, [max_tokens |-> Num("200")], [bogus |-> Num("1")]}

Requests ==
    [input_type : InputTypes, text : Texts, source_language : SourceLanguages,
     audio_path : AudioPaths, rag_query : RagQueries, rag_category : RagCategories,
     target_language : TargetLanguages, bio_llm_params : BioLLMParams]

\* The dicts handed to translate_text when it is called on its own.
DirectInputs ==
    {<<>>, [text |-> Str(<<"answer">>)]}
    \cup [text : {Str(<<>>), Str(<<"answer">>)}, source_language : SourceLanguages \ {None}]

(***************************************************************************)
(* The state machine                                                       *)
(***************************************************************************)
NoArgs == <<>>

Init ==
    /\ pc = [p \in Procs |-> "idle"]
    /\ args = [p \in Procs |-> NoArgs]
    /\ response = [p \in Procs |-> NoArgs]
    /\ locals = [p \in Procs |-> <<>>]
    /\ calls = [p \in Procs |-> <<>>]
    /\ statusLog = [p \in Procs |-> <<>>]

CanStart(p) == pc[p] = "idle"

\* process_pipeline is entered with arguments of R: lines 228-241.
Invoke(p, R) ==
    /\ CanStart(p)
    /\ \E a \in R : args' = [args EXCEPT ![p] = a]
    /\ pc' = [pc EXCEPT ![p] = "input_processing"]
    /\ response' = [response EXCEPT ![p] = NewResponse]
    /\ locals' = [locals EXCEPT ![p] = <<>>]
    /\ calls' = [calls EXCEPT ![p] = <<>>]
    /\ statusLog' = [statusLog EXCEPT ![p] = <<>>]

Call(p) == Invoke(p, Requests)

\* An exception reaches line 294: handled there, or it leaves process_pipeline.
Fails(p, r) ==
    /\ calls' = [calls EXCEPT ![p] = @ \o r.calls]
    /\ IF PipelineCatches(r.exc.type)
       THEN LET h == ExceptHandler(response[p], r.exc)
            IN  /\ response' = [response EXCEPT ![p] = h.response]
                /\ statusLog' = [statusLog EXCEPT ![p] = @ \o h.assigned]
                /\ pc' = [pc EXCEPT ![p] = "returned"]
       ELSE /\ pc' = [pc EXCEPT ![p] = "raised"]
            /\ UNCHANGED <<response, statusLog>>
    /\ UNCHANGED <<args, locals>>

\* Lines 244-260.
InputProcessing(p) ==
    /\ pc[p] = "input_processing"
    /\ \E out \in SpeechOutcomes :
        LET r == InputStage(args[p], out)
        IN  IF r.raised
            THEN Fails(p, r)
            ELSE /\ locals' = [locals EXCEPT ![p] =
                        [input_data |-> r.ret,
                         source_language |->
                            IF args[p].input_type = "speech"
                            THEN Get(r.ret, "source_language", English)
                            ELSE args[p].source_language]]
                 /\ response' = [response EXCEPT ![p] = WithStep(@, "input_processing", r.ret)]
                 /\ calls' = [calls EXCEPT ![p] = @ \o r.calls]
                 /\ pc' = [pc EXCEPT ![p] = "translation"]
                 /\ UNCHANGED <<args, statusLog>>

\* Lines 262-274.
TranslationHandling(p) ==
    /\ pc[p] = "translation"
    /\ \E out \in TranslateOutcomes :
        LET r == TranslationStage(locals[p].input_data, args[p].target_language, out)
        IN  /\ locals' = [locals EXCEPT ![p] = ("translated_data" :> r.ret) @@ @]
            /\ response' = [response EXCEPT ![p] = WithStep(@, "translation", r.ret)]
            /\ calls' = [calls EXCEPT ![p] = @ \o r.calls]
            /\ pc' = [pc EXCEPT ![p] = "rag_processing"]
            /\ UNCHANGED <<args, statusLog>>

\* Lines 276-280.
RAGProcessing(p) ==
    /\ pc[p] = "rag_processing"
    /\ \E out \in RagOutcomes :
        LET r == RagStage(args[p], out)
        IN  /\ locals' = [locals EXCEPT ![p] = ("rag_data" :> r.ret) @@ @]
            /\ response' = [response EXCEPT ![p] =
                    IF r.ret # None THEN WithStep(@, "rag_processing", r.ret) ELSE @]
            /\ calls' = [calls EXCEPT ![p] = @ \o r.calls]
            /\ pc' = [pc EXCEPT ![p] = "bio_llm_processing"]
            /\ UNCHANGED <<args, statusLog>>

\* Lines 282-298.
BioLLMProcessing(p) ==
    /\ pc[p] = "bio_llm_processing"
    /\ \E out \in BioLLMOutcomes :
        LET r == BioLLMStage(args[p], locals[p].translated_data, locals[p].rag_data, out)
        IN  IF r.raised
            THEN Fails(p, r)
            ELSE LET c == PipelineCompletes(response[p], r.ret)
                 IN  /\ response' = [response EXCEPT ![p] = c.response]
                     /\ statusLog' = [statusLog EXCEPT ![p] = @ \o c.assigned]
                     /\ locals' = [locals EXCEPT ![p] = ("result" :> r.ret) @@ @]
                     /\ calls' = [calls EXCEPT ![p] = @ \o r.calls]
                     /\ pc' = [pc EXCEPT ![p] = "returned"]
                     /\ UNCHANGED args

\* translate_text called on its own, as the front end does for the reply.
TranslateDirect(p) ==
    /\ CanStart(p)
    /\ \E input_data \in DirectInputs, target_language \in TargetLanguages,
          out \in TranslateOutcomes :
        LET r == translate_text(input_data, target_language, out)
        IN  /\ locals' = [locals EXCEPT ![p] =
                    [input_data |-> input_data, target_language |-> target_language,
                     translated_data |-> r.ret]]
            /\ calls' = [calls EXCEPT ![p] = r.calls]
    /\ pc' = [pc EXCEPT ![p] = "translated"]
    /\ args' = [args EXCEPT ![p] = NoArgs]
    /\ response' = [response EXCEPT ![p] = NoArgs]
    /\ statusLog' = [statusLog EXCEPT ![p] = <<>>]

\* The caller is done with what it got and may call again.
Release(p) ==
    /\ pc[p] \in {"returned", "raised", "translated"}
    /\ pc' = [pc EXCEPT ![p] = "idle"]
    /\ args' = [args EXCEPT ![p] = NoArgs]
    /\ response' = [response EXCEPT ![p] = NoArgs]
    /\ locals' = [locals EXCEPT ![p] = <<>>]
    /\ calls' = [calls EXCEPT ![p] = <<>>]
    /\ statusLog' = [statusLog EXCEPT ![p] = <<>>]

Step(p) ==
    \/ Call(p)
    \/ InputProcessing(p)
    \/ TranslationHandling(p)
    \/ RAGProcessing(p)
    \/ BioLLMProcessing(p)
    \/ TranslateDirect(p)
    \/ Release(p)

\* One caller at a time.
Next == Step("c1")

Spec == Init /\ [][Next]_vars

(***************************************************************************)
(* Vocabulary of the properties                                            *)
(***************************************************************************)
InPipeline(p) ==
    pc[p] \in {"input_processing", "translation", "rag_processing",
               "bio_llm_processing", "returned", "raised"}

HasReturned(p) == pc[p] = "returned"

Steps(p) == response[p].steps

HasStep(p, name) == name \in DOMAIN Steps(p)

CallsTo(p, cap) == {i \in 1..Len(calls[p]) : calls[p][i].cap = cap}

Invoked(p, cap) == CallsTo(p, cap) # {}

\* The external call raised (for retrieval: the POST or its decoding failed).
CallFailed(c) == c.reply.kind \in {"raise", "request_error", "bad_json"}

\* A retrieval reply that is no explicit, completed success.
RetrievalRejected(c) ==
    \/ CallFailed(c)
    \/ /\ c.reply.kind = "json"
       /\ \/ Get(c.reply.body, "status", None) # Str(<<"SUCCESS">>)
          \/ Get(c.reply.body, "completed", FALSE) = FALSE

\* The arguments name no keyword process_with_bio_llm rejects.
ParamsAccepted(a) ==
    a.bio_llm_params = None \/ DOMAIN a.bio_llm_params \subseteq BioLLMKeywords

\* The status of a stage result, "absent" when the dict has none.
StatusOf(d) == IF "status" \in DOMAIN d THEN d.status ELSE "absent"

\* Input ingestion succeeded: its stage result is recorded with status success.
IngestionSucceeded(p) ==
    /\ HasStep(p, "input_processing")
    /\ Steps(p)["input_processing"].status = Success

\* Validation raised before any stage was recorded.
ValidationFailed(p) == HasReturned(p) /\ ~HasStep(p, "input_processing")

\* speech_recognition returned status error.
SpeechFailed(p) ==
    /\ HasStep(p, "input_processing")
    /\ Steps(p)["input_processing"].status = Error

(***************************************************************************)
(* C1: when input ingestion fails (validation, or speech_recognition       *)
(* returning status error) the pipeline returns status error, records no   *)
(* translation, rag_processing or bio_llm_processing stage, and invokes    *)
(* neither translate, retrieval nor generation.                            *)
(***************************************************************************)
C1_IngestionFailureAborts ==
    \A p \in Procs :
        (HasReturned(p) /\ (ValidationFailed(p) \/ SpeechFailed(p))) =>
            /\ response[p].status = Error
            /\ DOMAIN Steps(p) \cap {"translation", "rag_processing", "bio_llm_processing"} = {}
            /\ ~Invoked(p, "translate")
            /\ ~Invoked(p, "rag")
            /\ ~Invoked(p, "bio_llm")

(***************************************************************************)
(* C2: when the retrieval reply is no completed SUCCESS (or the call       *)
(* fails), the retrieval stage result has status error and the empty       *)
(* string as context, the generation prompt is the translated text alone,  *)
(* generation is still invoked, and the pipeline returns success if the    *)
(* generation call succeeds.  Stated for the runs whose ingestion          *)
(* succeeded and whose generation parameters are accepted.                 *)
(***************************************************************************)
C2_RejectedRetrievalDegrades ==
    \A p \in Procs :
        (/\ HasReturned(p)
         /\ IngestionSucceeded(p)
         /\ ParamsAccepted(args[p])
         /\ \E i \in CallsTo(p, "rag") : RetrievalRejected(calls[p][i])) =>
            /\ HasStep(p, "rag_processing")
            /\ StatusOf(Steps(p)["rag_processing"]) = Error
            /\ Get(Steps(p)["rag_processing"], "rag_result", None) = Str(<<>>)
            /\ \E i \in CallsTo(p, "bio_llm") :
                /\ calls[p][i].data = Steps(p)["translation"].translated_text
                /\ ~CallFailed(calls[p][i]) => response[p].status = Success

(***************************************************************************)
(* C3: a failed generation call is the pipeline's terminal failure: when   *)
(* process_pipeline returns status success, the bio_llm_processing stage   *)
(* result has status success.                                              *)
(***************************************************************************)
C3_SuccessMeansGenerated ==
    \A p \in Procs :
        (HasReturned(p) /\ response[p].status = Success) =>
            /\ HasStep(p, "bio_llm_processing")
            /\ Steps(p)["bio_llm_processing"].status = Success
            /\ \A i \in CallsTo(p, "bio_llm") : ~CallFailed(calls[p][i])

(***************************************************************************)
(* C4: when the source language equals the target language the translation *)
(* result has status success and the input text as translated text, and    *)
(* the translate model is not called: for translate_text called on its own *)
(* and for the translation step of process_pipeline.  The source language  *)
(* is the one the stage is given (input_data's); for audio whose           *)
(* transcript carries no language, also the caller's.                      *)
(***************************************************************************)
IdentityTranslation(p, text, translated_data) ==
    /\ translated_data.status = Success
    /\ translated_data.translated_text = text
    /\ ~Invoked(p, "translate")

\* The language a transcript without one falls back to: the caller's, else "en".
FallbackLanguage(a) == IF Truthy(a.source_language) THEN a.source_language ELSE English

C4_SameLanguageIsIdentity ==
    \A p \in Procs :
        /\ (/\ InPipeline(p)
            /\ HasStep(p, "translation")
            /\ Steps(p)["input_processing"].source_language = args[p].target_language) =>
                IdentityTranslation(p, Steps(p)["input_processing"].text,
                                    Steps(p)["translation"])
        /\ (/\ InPipeline(p)
            /\ HasStep(p, "translation")
            /\ args[p].input_type = "speech"
            /\ \E i \in CallsTo(p, "speech") :
                /\ calls[p][i].reply.kind = "data"
                /\ IsDict(calls[p][i].reply.data)
                /\ "language" \notin DOMAIN calls[p][i].reply.data
            /\ FallbackLanguage(args[p]) = args[p].target_language) =>
                IdentityTranslation(p, Steps(p)["input_processing"].text,
                                    Steps(p)["translation"])
        /\ (/\ pc[p] = "translated"
            /\ Get(locals[p].input_data, "source_language", English)
                   = locals[p].target_language) =>
                IdentityTranslation(p, Get(locals[p].input_data, "text", Str(<<>>)),
                                    locals[p].translated_data)

\* Both cases happen with a language other than English, where line 266 does
\* not spare the call: in a pipeline run, and in a call of translate_text.
C4_Witness_Pipeline ==
    \E p \in Procs :
        /\ HasReturned(p)
        /\ HasStep(p, "translation")
        /\ args[p].target_language = Str(<<"fr">>)
        /\ Steps(p)["input_processing"].source_language = Str(<<"fr">>)
        /\ Steps(p)["translation"].translated_text = Steps(p)["input_processing"].text
        /\ Truthy(Steps(p)["translation"].translated_text)

(***************************************************************************)
(* C5: with an empty or absent rag_category the retrieval capability is    *)
(* never invoked and the stage map has no rag_processing entry, whatever   *)
(* rag_query is.                                                           *)
(***************************************************************************)
C5_NoCategoryNoRetrieval ==
    \A p \in Procs :
        (InPipeline(p) /\ ~Truthy(args[p].rag_category)) =>
            /\ ~Invoked(p, "rag")
            /\ ~HasStep(p, "rag_processing")

\* A run given a query but no category went through the RAG step and returned.
C5_Witness ==
    \E p \in Procs :
        /\ HasReturned(p)
        /\ HasStep(p, "bio_llm_processing")
        /\ Truthy(args[p].rag_query)
        /\ ~Truthy(args[p].rag_category)

\* translate_text called on its own with equal languages other than the default.
C4_Witness_Direct ==
    \E p \in Procs :
        /\ pc[p] = "translated"
        /\ "source_language" \in DOMAIN locals[p].input_data
        /\ locals[p].input_data.source_language = Str(<<"fr">>)
        /\ locals[p].target_language = Str(<<"fr">>)
        /\ locals[p].translated_data.translated_text = Str(<<"answer">>)

(***************************************************************************)
(* C6: with a non-empty rag_category and a successful ingestion the        *)
(* retrieval stage runs and is recorded; its query is rag_query when one   *)
(* is given and the translated text otherwise.                             *)
(***************************************************************************)
C6_CategoryMeansRetrieval ==
    \A p \in Procs :
        (/\ pc[p] \in {"bio_llm_processing", "returned"}
         /\ IngestionSucceeded(p)
         /\ Truthy(args[p].rag_category)) =>
            /\ HasStep(p, "rag_processing")
            /\ \E i \in CallsTo(p, "rag") :
                calls[p][i].data = IF Truthy(args[p].rag_query)
                                   THEN args[p].rag_query
                                   ELSE Steps(p)["translation"].translated_text

(***************************************************************************)
(* C7: process_pipeline always returns a response record and never lets an *)
(* exception out; the returned status is success or error, never           *)
(* "processing", and it is assigned exactly once.                          *)
(***************************************************************************)
C7_ReturnsOnceNeverRaises ==
    \A p \in Procs :
        /\ pc[p] # "raised"
        /\ (InPipeline(p) /\ ~HasReturned(p)) =>
                /\ response[p].status = "processing"
                /\ statusLog[p] = <<>>
        /\ HasReturned(p) =>
                /\ {"status", "steps", "message"} \subseteq DOMAIN response[p]
                /\ response[p].status \in {Success, Error}
                /\ statusLog[p] = <<response[p].status>>

\* An exception raised after two stages were recorded (the TypeError of
\* line 195) was turned into an error response.
C7_Witness ==
    \E p \in Procs :
        /\ HasReturned(p)
        /\ response[p].status = Error
        /\ HasStep(p, "translation")
        /\ ~HasStep(p, "bio_llm_processing")

(***************************************************************************)
(* C8: every stage result in the stage map has a status that is success or *)
(* error and a non-empty message, and its status is error when the stage's *)
(* capability call failed.                                                 *)
(***************************************************************************)
StageCapability ==
    [input_processing |-> "speech", translation |-> "translate",
     rag_processing |-> "rag", bio_llm_processing |-> "bio_llm"]

C8_StageResultsWellFormed ==
    \A p \in Procs :
        InPipeline(p) =>
            \A name \in DOMAIN Steps(p) :
                LET stage == Steps(p)[name]
                IN  /\ StatusOf(stage) \in {Success, Error}
                    /\ "message" \in DOMAIN stage
                    /\ Truthy(stage.message)
                    /\ (\E i \in CallsTo(p, StageCapability[name]) : CallFailed(calls[p][i]))
                          => StatusOf(stage) = Error

(***************************************************************************)
(* C9: when the translate call fails the translation result has status     *)
(* error and the untranslated input text; the pipeline goes on, generation *)
(* is invoked with that text, and the overall status is success if the     *)
(* generation call succeeds.  Stated for accepted generation parameters.   *)
(***************************************************************************)
StartsWith(s, prefix) ==
    /\ IsStr(s)
    /\ Len(s.chars) >= Len(prefix.chars)
    /\ SubSeq(s.chars, 1, Len(prefix.chars)) = prefix.chars

TranslateCallFailed(p) ==
    /\ HasReturned(p)
    /\ ParamsAccepted(args[p])
    /\ \E i \in CallsTo(p, "translate") : CallFailed(calls[p][i])

DegradedButAnswered(p) ==
    /\ Steps(p)["translation"].status = Error
    /\ Steps(p)["translation"].translated_text = Steps(p)["input_processing"].text
    /\ \E i \in CallsTo(p, "bio_llm") :
        /\ StartsWith(calls[p][i].data, PyStr(Steps(p)["input_processing"].text))
        /\ ~CallFailed(calls[p][i]) => response[p].status = Success

C9_TranslationFailureDegrades ==
    \A p \in Procs : TranslateCallFailed(p) => DegradedButAnswered(p)

\* The same statement for the runs whose ingestion succeeded: it holds there,
\* so the runs that break C9 are those C1 says should have stopped.
C9_AfterGoodIngestion ==
    \A p \in Procs :
        (TranslateCallFailed(p) /\ IngestionSucceeded(p)) => DegradedButAnswered(p)

(***************************************************************************)
(* C10: when the speech call raises a transport error the input stage      *)
(* result has status error, a non-empty message, empty text and the        *)
(* fallback language (the caller's source language, else "en"), and it is  *)
(* the only entry of the stage map.  A text of None counts as empty here.  *)
(***************************************************************************)
C10_SpeechTransportError ==
    \A p \in Procs :
        (/\ HasReturned(p)
         /\ \E i \in CallsTo(p, "speech") : calls[p][i].reply.kind = "raise") =>
            /\ DOMAIN Steps(p) = {"input_processing"}
            /\ LET stage == Steps(p)["input_processing"]
               IN  /\ stage.status = Error
                   /\ Truthy(stage.message)
                   /\ stage.text \in {Str(<<>>), None}
                   /\ stage.source_language = FallbackLanguage(args[p])

(***************************************************************************)
(* C11: for audio whose speech response carries no language, the source    *)
(* language the rest of the pipeline uses is the caller's source_language, *)
(* and "en" only when the caller gave none; a detected language is used    *)
(* only when the response carries one.                                     *)
(***************************************************************************)
\* The language of a speech reply, None when it carries none.
DetectedLanguage(reply) ==
    IF reply.kind = "data" /\ IsDict(reply.data) /\ "language" \in DOMAIN reply.data
    THEN reply.data["language"]
    ELSE None

C11_CallerLanguageIsFallback ==
    \A p \in Procs :
        (/\ InPipeline(p)
         /\ IngestionSucceeded(p)
         /\ args[p].input_type = "speech") =>
            \A i \in CallsTo(p, "speech") :
                LET detected == DetectedLanguage(calls[p][i].reply)
                    used == Steps(p)["input_processing"].source_language
                IN  /\ used = IF detected # None THEN detected ELSE FallbackLanguage(args[p])
                    /\ \A j \in CallsTo(p, "translate") : calls[p][j].sourcelanguage = used

(***************************************************************************)
(* C12: in process_pipeline the translate capability is invoked exactly    *)
(* when the source language differs from the target language and the input *)
(* text is non-empty, and then with (text, source, target); otherwise the   *)
(* translation stage is a success whose translated text is the input text. *)
(* Stated for the runs whose ingestion succeeded.                          *)
(***************************************************************************)
C12_TranslateExactlyWhenNeeded ==
    \A p \in Procs :
        (/\ InPipeline(p)
         /\ IngestionSucceeded(p)
         /\ HasStep(p, "translation")) =>
            LET input_data == Steps(p)["input_processing"]
                needed == /\ input_data.source_language # args[p].target_language
                          /\ Truthy(input_data.text)
            IN  IF needed
                THEN \E i \in CallsTo(p, "translate") :
                        /\ calls[p][i].text = input_data.text
                        /\ calls[p][i].sourcelanguage = input_data.source_language
                        /\ calls[p][i].targetlanguage = args[p].target_language
                ELSE IdentityTranslation(p, input_data.text, Steps(p)["translation"])

(***************************************************************************)
(* The retrieval endpoint may never answer.  requests.post is called       *)
(* without a timeout (lines 86-90), so the call then blocks: the caller    *)
(* waits in "awaiting_rag" and no step of the code takes it out.           *)
(***************************************************************************)
RAGNoResponse(p) ==
    /\ pc[p] = "rag_processing"
    /\ RagWanted(args[p].rag_query, args[p].rag_category)
    /\ calls' = [calls EXCEPT ![p] =
            Append(@, [cap |-> "rag", data |-> args[p].rag_query,
                       category |-> args[p].rag_category,
                       reply |-> [kind |-> "no_response"]])]
    /\ pc' = [pc EXCEPT ![p] = "awaiting_rag"]
    /\ UNCHANGED <<args, response, locals, statusLog>>

NextBlocking == Next \/ RAGNoResponse("c1")

\* The caller's thread keeps running whenever a step of it is possible.
SpecBlocking == Init /\ [][NextBlocking]_vars /\ WF_vars(NextBlocking)

\* process_pipeline has been entered and has not returned.
InProgress(p) ==
    pc[p] \in {"input_processing", "translation", "rag_processing", "awaiting_rag",
               "bio_llm_processing"}

\* A step of the invocation: a stage completes (with a reply, an error or a timeout).
Progress(p) ==
    \/ InputProcessing(p)
    \/ TranslationHandling(p)
    \/ RAGProcessing(p)
    \/ BioLLMProcessing(p)

(***************************************************************************)
(* C13: every process_pipeline invocation eventually returns, also when an *)
(* external capability never responds: each external call is bounded by a  *)
(* timeout, after which its stage yields an error result and the pipeline  *)
(* proceeds.  As a state property: an invocation in progress can always    *)
(* take a step.                                                            *)
(***************************************************************************)
C13_NeverBlocked ==
    \A p \in Procs : InProgress(p) => ENABLED Progress(p)

\* The same as a liveness property, under SpecBlocking's fairness.
C13_EventuallyReturns ==
    \A p \in Procs : (pc[p] = "input_processing") ~> (pc[p] = "returned")

(***************************************************************************)
(* Two calls on one BioLLM instance, their stages interleaved in any       *)
(* order (one after the other included), against deterministic             *)
(* capabilities: the same request always gets the same reply.              *)
(***************************************************************************)
TwoRequests ==
    { [input_type |-> "text", text |-> Str(<<"pain">>), source_language |-> Str(<<"en">>),
       audio_path |-> None, rag_query |-> Str(<<"angina">>),
       rag_category |-> Str(<<"general">>), target_language |-> Str(<<"en">>),
       bio_llm_params |-> None],
      [input_type |-> "text", text |-> Str(<<"pain">>), source_language |-> Str(<<"fr">>),
       audio_path |-> None, rag_query |-> None, rag_category |-> None,
       target_language |-> Str(<<"en">>), bio_llm_params |-> None],
      [input_type |-> "speech", text |-> None, source_language |-> None,
       audio_path |-> Str(<<"/tmp/a.wav">>), rag_query |-> None, rag_category |-> None,
       target_language |-> Str(<<"en">>), bio_llm_params |-> None],
      [input_type |-> "audio", text |-> None, source_language |-> Str(<<"en">>),
       audio_path |-> Str(<<"/tmp/a.wav">>), rag_query |-> Str(<<>>),
       rag_category |-> Str(<<"general">>), target_language |-> Str(<<"en">>),
       bio_llm_params |-> None] }

\* Two logged calls carry the same request.
SameRequest(c, d) == [c EXCEPT !.reply = <<>>] = [d EXCEPT !.reply = <<>>]

Deterministic ==
    \A p, q \in Procs :
        \A i \in 1..Len(calls[p]), j \in 1..Len(calls[q]) :
            SameRequest(calls[p][i], calls[q][j]) => calls[p][i].reply = calls[q][j].reply

StepTwo(p) ==
    \/ Invoke(p, TwoRequests)
    \/ InputProcessing(p) /\ Deterministic'
    \/ TranslationHandling(p) /\ Deterministic'
    \/ RAGProcessing(p) /\ Deterministic'
    \/ BioLLMProcessing(p) /\ Deterministic'

NextTwo == \E p \in Procs : StepTwo(p)

SpecTwo == Init /\ [][NextTwo]_vars

(***************************************************************************)
(* C14: two invocations with identical arguments against deterministic     *)
(* capabilities give identical responses (status, stage map, message); the *)
(* first leaves nothing behind that changes the second.                    *)
(***************************************************************************)
C14_Idempotent ==
    \A p, q \in Procs :
        (HasReturned(p) /\ HasReturned(q) /\ args[p] = args[q]) =>
            response[p] = response[q]

\* Both calls ran the text request with retrieval to the end.
C14_Witness ==
    /\ HasReturned("c1") /\ HasReturned("c2")
    /\ args["c1"] = args["c2"]
    /\ HasStep("c1", "rag_processing") /\ HasStep("c2", "rag_processing")
    /\ HasStep("c1", "bio_llm_processing") /\ HasStep("c2", "bio_llm_processing")


\* The reply caller p's invocation got from a capability (unused when the
\* invocation made no call to it).
ReplyTo(p, cap) ==
    IF CallsTo(p, cap) = {} THEN [kind |-> "raise"]
    ELSE calls[p][CHOOSE i \in CallsTo(p, cap) : TRUE].reply

\* process_pipeline run on its own, start to finish, on arguments a with the
\* capabilities answering outs: lines 238-298.
RunAlone(a, outs) ==
    LET r1 == InputStage(a, outs.speech)
    IN  IF r1.raised THEN ExceptHandler(NewResponse, r1.exc).response
        ELSE
        LET resp1 == WithStep(NewResponse, "input_processing", r1.ret)
            r2 == TranslationStage(r1.ret, a.target_language, outs.translate)
            resp2 == WithStep(resp1, "translation", r2.ret)
            r3 == RagStage(a, outs.rag)
            resp3 == IF r3.ret # None THEN WithStep(resp2, "rag_processing", r3.ret) ELSE resp2
            r4 == BioLLMStage(a, r2.ret, r3.ret, outs.bio_llm)
        IN  IF r4.raised THEN ExceptHandler(resp3, r4.exc).response
            ELSE PipelineCompletes(resp3, r4.ret).response

(***************************************************************************)
(* C15: two invocations interleaved on one instance do not interfere:      *)
(* under every interleaving of their stages, each returns the response it  *)
(* would return when run alone against the same capability replies.        *)
(***************************************************************************)
C15_NoInterference ==
    \A p \in Procs :
        HasReturned(p) =>
            response[p] = RunAlone(args[p],
                                   [speech |-> ReplyTo(p, "speech"),
                                    translate |-> ReplyTo(p, "translate"),
                                    rag |-> ReplyTo(p, "rag"),
                                    bio_llm |-> ReplyTo(p, "bio_llm")])

\* Two different requests, both answered while the other was in progress.
C15_Witness ==
    /\ HasReturned("c1") /\ HasReturned("c2")
    /\ args["c1"] # args["c2"]
    /\ HasStep("c1", "rag_processing") /\ ~HasStep("c2", "rag_processing")
    /\ HasStep("c2", "bio_llm_processing")
    /\ Invoked("c2", "translate")


Capabilities == {"speech", "translate", "rag", "bio_llm"}

(***************************************************************************)
(* C16: no retries.  Within one process_pipeline invocation each of the    *)
(* four capabilities (speech, translate, retrieval, generation) is invoked *)
(* at most once, and a failed capability call is never repeated.           *)
(***************************************************************************)
C16_NoRetries ==
    \A p \in Procs : \A cap \in Capabilities :
        /\ Cardinality(CallsTo(p, cap)) <= 1
        /\ \A i, j \in 1..Len(calls[p]) :
              (i # j /\ CallFailed(calls[p][i])) => ~SameRequest(calls[p][i], calls[p][j])

\* An invocation that used all four capabilities, two of them failing.
C16_Witness ==
    /\ HasReturned("c1")
    /\ \A cap \in Capabilities : Invoked("c1", cap)
    /\ \E i \in CallsTo("c1", "translate") : CallFailed(calls["c1"][i])
    /\ \E i \in CallsTo("c1", "rag") : CallFailed(calls["c1"][i])


\* The entries of the stage map are where the code's order puts them.
StagesInOrder(p) ==
    /\ HasStep(p, "translation") => HasStep(p, "input_processing")
    /\ HasStep(p, "rag_processing") => HasStep(p, "translation")
    /\ HasStep(p, "bio_llm_processing") => HasStep(p, "translation")

\* Within one invocation every recorded entry stays, with the value recorded.
StagesKept(p) ==
    (InPipeline(p) /\ InPipeline(p)') =>
        \A name \in DOMAIN Steps(p) :
            /\ name \in DOMAIN Steps(p)'
            /\ Steps(p)'[name] = Steps(p)[name]

(***************************************************************************)
(* C17: stage results are appended in the order input_processing,          *)
(* translation, rag_processing (optional), bio_llm_processing, and an      *)
(* entry once recorded is never removed or replaced: in every reachable    *)
(* state a translation entry implies an input_processing entry, and a      *)
(* rag_processing or bio_llm_processing entry implies a translation entry. *)
(***************************************************************************)
C17_StagesInOrderAndKept ==
    /\ [](\A p \in Procs : InPipeline(p) => StagesInOrder(p))
    /\ [][\A p \in Procs : StagesKept(p)]_vars

\* A finished invocation with all four entries recorded.
C17_Witness ==
    /\ HasReturned("c1")
    /\ DOMAIN Steps("c1") =
          {"input_processing", "translation", "rag_processing", "bio_llm_processing"}


\* The arguments the validation of lines 245-258 is to refuse.
InvalidArguments(a) ==
    \/ a.input_type = "text" /\ (a.text \in {None, Str(<<>>)} \/ a.source_language = None)
    \/ a.input_type = "speech" /\ a.audio_path = None
    \/ a.input_type \notin {"text", "speech"}

(***************************************************************************)
(* C18: a validation failure is raised before any external call.  For text *)
(* input with empty or missing text or missing source language, for speech *)
(* input with missing audio path, and for any input type other than text   *)
(* or speech, process_pipeline returns overall status error with a         *)
(* non-empty message, an empty stage map, and no invocation of any         *)
(* capability, speech included.                                            *)
(***************************************************************************)
C18_ValidationBeforeAnyCall ==
    \A p \in Procs :
        (InPipeline(p) /\ InvalidArguments(args[p])) =>
            /\ calls[p] = <<>>
            /\ Steps(p) = <<>>
            /\ pc[p] # "input_processing" =>
                  /\ HasReturned(p)
                  /\ response[p].status = Error
                  /\ "message" \in DOMAIN response[p]
                  /\ IsStr(response[p].message)
                  /\ response[p].message.chars # <<>>

\* A text request with empty text was refused.
C18_Witness ==
    /\ HasReturned("c1")
    /\ args["c1"].input_type = "text"
    /\ args["c1"].text = Str(<<>>)
    /\ response["c1"].status = Error


\* Retrieval ran, was accepted by the endpoint, and gave a non-empty context.
RetrievedContext(p) ==
    /\ HasStep(p, "rag_processing")
    /\ \E j \in CallsTo(p, "rag") : ~RetrievalRejected(calls[p][j])
    /\ Truthy(RagContext(Steps(p)["rag_processing"]))

(***************************************************************************)
(* C19: the prompt sent to the generation capability is the translated     *)
(* text followed by the "Additional context:" header and the retrieved     *)
(* context when the retrieval stage ran, succeeded and returned a          *)
(* non-empty context, and is exactly the translated text alone in every    *)
(* other case (retrieval skipped, retrieval failed, or empty context).     *)
(***************************************************************************)
C19_PromptComposition ==
    \A p \in Procs :
        (InPipeline(p) /\ IngestionSucceeded(p)) =>
            \A i \in CallsTo(p, "bio_llm") :
                LET text == Get(Steps(p)["translation"], "translated_text", Str(<<>>))
                IN  calls[p][i].data =
                        IF RetrievedContext(p)
                        THEN Concat(Concat(PyStr(text), Str(<<"\n\nAdditional context: ">>)),
                                    RagContext(Steps(p)["rag_processing"]))
                        ELSE text

\* The same, for the invocations whose retrieval was skipped or accepted.
C19_UnlessRetrievalFailed ==
    \A p \in Procs :
        (/\ InPipeline(p) /\ IngestionSucceeded(p)
         /\ \A j \in CallsTo(p, "rag") : ~RetrievalRejected(calls[p][j])) =>
            \A i \in CallsTo(p, "bio_llm") :
                LET text == Get(Steps(p)["translation"], "translated_text", Str(<<>>))
                IN  calls[p][i].data =
                        IF RetrievedContext(p)
                        THEN Concat(Concat(PyStr(text), Str(<<"\n\nAdditional context: ">>)),
                                    RagContext(Steps(p)["rag_processing"]))
                        ELSE text


(***************************************************************************)
(* The Audio mode of the front end                                         *)
(***************************************************************************)
\* The arguments of the process_pipeline call of Audio mode: the uploaded
\* file saved to a temporary path, the three text fields of the form, and
\* the input type and target language the call spells out.
AudioModeRequests ==
    [input_type : {"audio"}, text : {None}, source_language : {Str(<<"en">>), Str(<<"fr">>)},
     audio_path : {Str(<<"/tmp/a.wav">>)},
     rag_query : {Str(<<>>), Str(<<"angina">>)},
     rag_category : {Str(<<>>), Str(<<"general">>)},
     target_language : {Str(<<"en">>)}, bio_llm_params : {None}]

\* The transcript the front end displays:
\* result.get("steps", {}).get("input_processing", {}).get("text", "")
Transcript(result) ==
    Get(Get(Get(result, "steps", <<>>), "input_processing", <<>>), "text", Str(<<>>))

(***************************************************************************)
(* C20: when the Audio-mode front end submits an uploaded audio file, its  *)
(* process_pipeline call runs the pipeline in speech mode: the             *)
(* speech-recognition stage is invoked on the saved audio path and an      *)
(* input_processing entry is recorded, so the displayed transcript comes   *)
(* from the speech stage.                                                  *)
(***************************************************************************)
C20_AudioModeRunsSpeech ==
    \A p \in Procs :
        (HasReturned(p) /\ args[p] \in AudioModeRequests) =>
            /\ \E i \in CallsTo(p, "speech") : calls[p][i].source_audio = args[p].audio_path
            /\ HasStep(p, "input_processing")
            /\ Transcript(response[p]) = Steps(p)["input_processing"].text

\* What the call does instead: it is refused as an invalid input type.
C20_AudioModeIsRefused ==
    \A p \in Procs :
        (HasReturned(p) /\ args[p] \in AudioModeRequests) =>
            /\ calls[p] = <<>>
            /\ Steps(p) = <<>>
            /\ response[p].status = Error
            /\ response[p].message =
                  Str(<<"Pipeline failed: ", "Invalid input type. Choose 'text' or 'speech'">>)
            /\ Transcript(response[p]) = Str(<<>>)

====
